---------------------------- MODULE Spec2Model ----------------------------
(***************************************************************************)
(* A model of FawltyDeps' package resolution (src/fawltydeps/packages.py): *)
(* Package, the four resolvers and resolve_dependencies; and of the        *)
(* comparison of imports with dependencies (src/fawltydeps/check.py).      *)
(*                                                                         *)
(* Strings are sequences of one-character strings, so that                 *)
(* Package.normalize_name is computed character by character.              *)
(***************************************************************************)
EXTENDS Naturals, Sequences, FiniteSets, TLC

VARIABLES
    \* --- Package.normalize_name applied to chosen inputs (SpecNorm)
    n_in,        \* the string handed to normalize_name
    n_var,       \* a second string, a case / hyphen variant of n_in
    n_out,       \* outputs so far: a record of the strings computed
    n_pc,        \* "init" | "once" | "twice"
    \* --- one Package object driven through its methods (SpecPkg)
    pkg,         \* the Package, or NoPkg before construction
    p_log,       \* how pkg came about: [via, arg, added]
    used,        \* [cands, ret] when the last call was is_used(), else NoCall
    \* --- one call of resolve_dependencies, or of one resolver (Spec)
    pc,          \* "idle" | "loop" | "return" | "done" | "raised" | "looked_up"
    args,        \* the arguments of the call
    deps,        \* resolve_dependencies: set(dep_names)
    resolvers,   \* resolve_dependencies: the list of resolvers, by kind
    idx,         \* resolve_dependencies: position of the for loop in resolvers
    ret,         \* resolve_dependencies: the accumulated dict
    result,      \* what the call returned, or NoResult
    error,       \* the exception that left the call, or NoError
    udm,         \* the UserDefinedMapping instance, or None
    lpr,         \* the LocalPackageResolver instance, or None
    calls,       \* history: the lookup_packages calls made, in order
    \* --- one call of compare_imports_to_dependencies (SpecCmp)
    cmp,         \* [imports, dependencies, ret] after the call, else NoCmp
    \* --- one call of determine_package_dir, step by step (SpecDir)
    d_in,        \* the path the caller gave
    d_cur,       \* the path of the current recursive call
    d_depth,     \* how many recursive calls were made
    d_ret,       \* what was returned (NoDir for None)
    d_pc,        \* "off" | "search" | "returned"
    \* --- one run of the command line, main() (SpecCli)
    m_args,      \* [actions, code, imports, deps]: the command line and what
                 \* the extractors find under --code and --deps
    m_analysis,  \* the Analysis that Analysis.create returned, else None
    m_exc,       \* the exception that left Analysis.create, else NoError
    m_exit,      \* the exit code, None while running
    m_pc,        \* "off" | "create" | "created" | "raised" | "exited"
    \* --- one use of traverse_project.find_sources (SpecTrav)
    t_settings,  \* [code, deps, files]: settings.code, settings.deps and the
                 \* files of the directory that may be traversed
    t_yielded,   \* the Sources yielded, in order
    t_exc,       \* the exception that ended the use, else NoError
    t_pc         \* "off" | "start" | "ended"

normVars == <<n_in, n_var, n_out, n_pc>>
pkgVars  == <<pkg, p_log, used>>
mainVars == <<pc, args, deps, resolvers, idx, ret, result, error, udm, lpr, calls>>
cmpVars  == <<cmp>>
dirVars  == <<d_in, d_cur, d_depth, d_ret, d_pc>>
cliVars  == <<m_args, m_analysis, m_exc, m_exit, m_pc>>
travVars == <<t_settings, t_yielded, t_exc, t_pc>>
vars     == <<normVars, pkgVars, mainVars, cmpVars, dirVars, cliVars, travVars>>

(***************************************************************************)
(* Characters and strings                                                  *)
(***************************************************************************)
\* The characters the generated inputs are built from.
Chars == {"a", "A", "b", "B", "-", "_"}

\* The strings of the documented examples.
Foo_Bar == <<"F", "o", "o", "-", "B", "a", "r">>        \* "Foo-Bar"
foo_bar == <<"f", "o", "o", "_", "b", "a", "r">>        \* "foo_bar"
foo_hy_bar == <<"f", "o", "o", "-", "b", "a", "r">>     \* "foo-bar"
FooBar == <<"F", "o", "o", "B", "a", "r">>              \* "FooBar"
foobar == <<"f", "o", "o", "b", "a", "r">>              \* "foobar"

\* Every character of a generated input, an example or an output.
AllChars == Chars \cup {"F", "f", "o", "r", "P", "p", "I", "i", "d"}

\* Python's None, and a value that is not None. (Optional values are
\* records, so that any two of them can be compared.)
None == [none |-> TRUE]
Some(v) == [some |-> v]

NoStr == <<"<none>">>
NoPkg == None
NoCall == None
NoLog == None

\* The variables of a part of the program that is not running.
PkgIdle == pkg = NoPkg /\ p_log = NoLog /\ used = NoCall
NormIdle == n_in = NoStr /\ n_var = NoStr /\ n_out = NoStr /\ n_pc = "off"

NoCmp == None
CmpIdle == cmp = NoCmp
TravIdle ==
    /\ t_settings = None /\ t_yielded = <<>> /\ t_exc = "<no error>"
    /\ t_pc = "off"
CliIdle ==
    /\ m_args = None /\ m_analysis = None /\ m_exc = "<no error>"
    /\ m_exit = None /\ m_pc = "off"
DirIdle ==
    /\ d_in = <<>> /\ d_cur = <<>> /\ d_depth = 0
    /\ d_ret = <<>> /\ d_pc = "off"

\* Longest generated input of normalize_name.
MaxLen == 3

\* All strings over Chars of length 0..n.
Strs(n) == UNION {[1..k -> Chars] : k \in 0..n}

\* str.lower() on one character: upper-case letters map to their lower-case
\* letter, everything else (lower-case letters, punctuation) is unchanged.
LowerChar(c) ==
    CASE c = "A" -> "a"
      [] c = "B" -> "b"
      [] c = "F" -> "f"
      [] c = "I" -> "i"
      [] c = "P" -> "p"
      [] OTHER   -> c

\* str.lower()
Lower(s) == [i \in 1..Len(s) |-> LowerChar(s[i])]

\* str.replace(old, new) for one-character old and new: every occurrence.
Replace(s, old, new) == [i \in 1..Len(s) |-> IF s[i] = old THEN new ELSE s[i]]

\* A plausible slip: the separators are unified but the case is kept.
normalize_name_nolower(package_name) == Replace(package_name, "-", "_")

\* Package.normalize_name: package_name.lower().replace("-", "_")
normalize_name(package_name) == Replace(Lower(package_name), "-", "_")

(***************************************************************************)
(* Package                                                                 *)
(***************************************************************************)
\* A plausible slip: the constructor keeps the import_names it was given.
post_init_keep(self) == self

\* Package.__post_init__: import_names is recomputed from mappings, whatever
\* the constructor was given.
post_init(self) ==
    [self EXCEPT !.import_names =
        UNION {self.mappings[d] : d \in DOMAIN self.mappings}]

\* Package(package_name, mappings, import_names): the dataclass constructor
\* stores its three arguments and runs __post_init__.
Package(package_name, mappings, import_names) ==
    post_init([package_name |-> package_name,
               mappings     |-> mappings,
               import_names |-> import_names])

\* dict.setdefault(description, set()).update(import_names)
SetDefaultUpdate(mappings, description, import_names) ==
    [d \in DOMAIN mappings \cup {description} |->
        (IF d \in DOMAIN mappings THEN mappings[d] ELSE {})
        \cup (IF d = description THEN import_names ELSE {})]

\* A plausible slip: the names under the description are replaced.
add_import_names_replace(self, import_names, description) ==
    [self EXCEPT
        !.mappings = [d \in DOMAIN self.mappings \cup {description} |->
                         IF d = description THEN import_names
                         ELSE self.mappings[d]],
        !.import_names = self.import_names \cup import_names]

\* Package.add_import_names(*import_names, description=...)
add_import_names(self, import_names, description) ==
    [self EXCEPT
        !.mappings = SetDefaultUpdate(self.mappings, description, import_names),
        !.import_names = self.import_names \cup import_names]

\* A plausible slip: the candidates are normalized before the comparison.
is_used_normalizing(self, imported_names) ==
    self.import_names \cap {normalize_name(c) : c \in imported_names} # {}

\* Package.is_used(imported_names)
is_used(self, imported_names) ==
    self.import_names \cap imported_names # {}

IdentityDescription == "Identity mapping"

\* IdentityMapping.lookup_package(package_name)
lookup_package(package_name) ==
    add_import_names(Package(package_name, <<>>, {}),
                     {normalize_name(package_name)}, IdentityDescription)

(***************************************************************************)
(* Spelling variants, from a table of their own                            *)
(***************************************************************************)
\* Two characters that differ at most in letter case or hyphen/underscore.
\* (A table of its own: it does not go through LowerChar.)
CasePairs == {{"a", "A"}, {"b", "B"}, {"f", "F"}, {"i", "I"}, {"p", "P"}}
SameModulo(c, d) == c = d \/ {c, d} \in CasePairs \/ {c, d} = {"-", "_"}

\* The strings that differ from x only in letter case or hyphen/underscore.
RECURSIVE Variants(_)
Variants(x) ==
    IF x = <<>> THEN {<<>>}
    ELSE {<<d>> \o t : d \in {e \in AllChars : SameModulo(Head(x), e)},
                       t \in Variants(Tail(x))}

(***************************************************************************)
(* The world the resolvers read: files, mapping contents, environments     *)
(***************************************************************************)
Ok(v) == [ok |-> TRUE, value |-> v]
Raise(e) == [ok |-> FALSE, exc |-> e]

\* Package names that are requested, mapped or installed.
PIP == <<"P", "I", "P">>                  \* "PIP"
pip == <<"p", "i", "p">>                  \* "pip"
pd == <<"p", "d">>                        \* "pd": neither mapped nor installed
Foo_us_Bar == <<"F", "o", "o", "_", "B", "a", "r">>   \* "Foo_Bar"

\* Import names.
blorp == <<"b", "l", "o", "r", "p">>
baz == <<"b", "a", "z">>
unicorn == <<"u", "n", "i">>
airflow == <<"a", "i", "r">>
pipx == <<"p", "i", "p", "x">>
foo == <<"f", "o", "o">>
old == <<"o", "l", "d">>

\* Paths a caller may give as mapping files. Path.is_file() holds of the
\* first two; the third is a directory.
MappingPaths == {"m1.toml", "m2.toml", "sample_projects"}
IsFile(path) == path \in {"m1.toml", "m2.toml"}

\* tomllib.load() of each mapping file: package name -> import names.
FileContent(path) ==
    CASE path = "m1.toml" -> (foo_hy_bar :> {blorp}) @@ (Foo_us_Bar :> {baz})
      [] path = "m2.toml" -> (foo_bar :> {unicorn}) @@ (pip :> {pipx})
      [] OTHER -> <<>>

\* The custom_mapping a caller may pass (None, or a parsed CustomMapping).
CustomMappings == {None, Some(Foo_Bar :> {airflow})}

\* Distributions found on sys.path, in the order find_distributions() yields
\* them: [name, imports, parent_dir]. "pip" is found twice.
SysPathDists ==
    << [name |-> pip, imports |-> {pip}, parent_dir |-> "site-packages"],
       [name |-> Foo_Bar, imports |-> {foo}, parent_dir |-> "site-packages"],
       [name |-> pip, imports |-> {old}, parent_dir |-> "dist-packages"] >>

\* Directories, as sequences of components below the root <<>>.
\* A directory with a bin/python file:
FsBinPython == {<<"proj", ".venv">>, <<"opt", "venv2">>, <<"opt", "broken">>}
\* A directory with a lib/pythonX.Y/site-packages subdirectory:
FsSitePackages == {<<"proj", ".venv">>, <<"opt", "venv2">>}
\* A __pypackages__ directory with an X.Y/lib subdirectory:
FsPyPackages == {<<"pep582", "__pypackages__">>}

\* The pyenv_paths a caller may give.
PyenvPaths == {<<"proj", ".venv">>, <<"proj", ".venv", "bin">>,
               <<"opt", "venv2">>, <<"opt", "broken">>}

(***************************************************************************)
(* UserDefinedMapping                                                      *)
(***************************************************************************)
SettingsDescription == "User-defined mapping from settings"
FileDescription(path) == "User-defined mapping from " \o path

\* Some enumeration of a finite set: the order a Python set or dict happens
\* to iterate in.
RECURSIVE SetToSeq(_)
SetToSeq(S) ==
    IF S = {} THEN <<>>
    ELSE LET x == CHOOSE y \in S : TRUE IN <<x>> \o SetToSeq(S \ {x})

\* A plausible slip: the constructor accepts any path.
UserDefinedMapping_init_nocheck(mapping_paths, custom_mapping) ==
    Ok([mapping_paths |-> IF mapping_paths = None THEN {} ELSE mapping_paths.some,
        custom_mapping |-> custom_mapping,
        _packages |-> None])

\* UserDefinedMapping.__init__: every given path must be a file.
UserDefinedMapping_init(mapping_paths, custom_mapping) ==
    LET paths == IF mapping_paths = None THEN {} ELSE mapping_paths.some
    IN  IF \E path \in paths : ~IsFile(path)
        THEN Raise("UnparseablePathException")
        ELSE Ok([mapping_paths |-> paths,
                 custom_mapping |-> custom_mapping,
                 _packages |-> None])

\* A plausible slip: a later declaration of a name replaces the earlier one.
RECURSIVE AccumulateNames_overwrite(_, _, _, _)
AccumulateNames_overwrite(acc, custom_mapping, names, description) ==
    IF names = <<>> THEN acc
    ELSE LET name == Head(names)
             normalized_name == normalize_name(name)
             added == add_import_names(Package(normalized_name, <<>>, {}),
                                       custom_mapping[name], description)
             next == [k \in DOMAIN acc \cup {normalized_name} |->
                        IF k = normalized_name THEN added ELSE acc[k]]
         IN  AccumulateNames_overwrite(next, custom_mapping, Tail(names),
                                       description)

\* The inner loop of accumulate_mappings over one CustomMapping: names is
\* the sequence custom_mapping.items() yields.
RECURSIVE AccumulateNames(_, _, _, _)
AccumulateNames(acc, custom_mapping, names, description) ==
    IF names = <<>> THEN acc
    ELSE LET name == Head(names)
             normalized_name == normalize_name(name)
             package == IF normalized_name \in DOMAIN acc
                        THEN acc[normalized_name]
                        ELSE Package(normalized_name, <<>>, {})
             added == add_import_names(package, custom_mapping[name], description)
             next == [k \in DOMAIN acc \cup {normalized_name} |->
                        IF k = normalized_name THEN added ELSE acc[k]]
         IN  AccumulateNames(next, custom_mapping, Tail(names), description)

\* accumulate_mappings(custom_mappings): custom_mappings is a sequence of
\* <<CustomMapping, description>>.
RECURSIVE AccumulateFrom(_, _)
AccumulateFrom(acc, custom_mappings) ==
    IF custom_mappings = <<>> THEN acc
    ELSE LET custom_mapping == Head(custom_mappings)[1]
             description == Head(custom_mappings)[2]
         IN  AccumulateFrom(
                 AccumulateNames(acc, custom_mapping,
                                 SetToSeq(DOMAIN custom_mapping), description),
                 Tail(custom_mappings))

accumulate_mappings(custom_mappings) == AccumulateFrom(<<>>, custom_mappings)

\* UserDefinedMapping.packages._custom_mappings(): the settings first, then
\* each mapping file.
UdmCustomMappings(self) ==
    (IF self.custom_mapping # None
     THEN << <<self.custom_mapping.some, SettingsDescription>> >> ELSE <<>>)
    \o [i \in 1..Cardinality(self.mapping_paths) |->
          LET path == SetToSeq(self.mapping_paths)[i]
          IN  <<FileContent(path), FileDescription(path)>>]

\* A plausible slip: the computed value is not stored.
UdmPackages_uncached(self) ==
    IF self._packages # None
    THEN <<self, self._packages.some>>
    ELSE <<self, accumulate_mappings(UdmCustomMappings(self))>>

\* calculated_once: the method runs when the cache attribute is None, and
\* its value is stored. Gives <<self after the access, value>>.
UdmPackages(self) ==
    IF self._packages # None
    THEN <<self, self._packages.some>>
    ELSE LET computed == accumulate_mappings(UdmCustomMappings(self))
         IN  <<[self EXCEPT !._packages = Some(computed)], computed>>

\* A plausible slip: the requested spelling is looked for in the cache.
MatchedNames_verbatim(package_names, packages) ==
    {name \in package_names : name \in DOMAIN packages}

\* The names of a lookup that the cached packages match: by normalized name.
MatchedNames(package_names, packages) ==
    {name \in package_names : normalize_name(name) \in DOMAIN packages}

\* Which entry of the cache a requested name is given.
PackageKey(name) == normalize_name(name)

\* A plausible slip: the Package returned is renamed to the requested name.
UdmLookup_renaming(self, package_names) ==
    IF package_names = {} THEN [self |-> self, out |-> Ok(<<>>)]
    ELSE LET got == UdmPackages(self)
             packages == got[2]
         IN  [self |-> got[1],
              out |-> Ok([name \in MatchedNames(package_names, packages) |->
                            [packages[PackageKey(name)]
                                EXCEPT !.package_name = name]])]

\* UserDefinedMapping.lookup_packages(package_names). The comprehension
\* reads self.packages once per name, so not at all for an empty set.
\* Gives [self, out]: the instance afterwards and the outcome.
UdmLookup(self, package_names) ==
    IF package_names = {} THEN [self |-> self, out |-> Ok(<<>>)]
    ELSE LET got == UdmPackages(self)
             packages == got[2]
         IN  [self |-> got[1],
              out |-> Ok([name \in MatchedNames(package_names, packages) |->
                            packages[PackageKey(name)]])]

(***************************************************************************)
(* LocalPackageResolver                                                    *)
(***************************************************************************)
DefaultTemplate == "Python env at {path}"
TempTemplate == "Temporarily pip-installed"

\* determine_package_dir's None, as a path that is no directory.
NoDir == <<"<None>">>

\* Path.parent: the root is its own parent.
Parent(path) == IF path = <<>> THEN path ELSE SubSeq(path, 1, Len(path) - 1)

\* LocalPackageResolver.determine_package_dir(path). tmp_venvs are the
\* temporary venvs that exist besides the directories of the world.
RECURSIVE determine_package_dir(_, _)
determine_package_dir(path, tmp_venvs) ==
    IF path \in FsBinPython \cup tmp_venvs /\ path \in FsSitePackages \cup tmp_venvs
    THEN path \o <<"lib", "pythonX.Y", "site-packages">>
    ELSE IF path # <<>> /\ path[Len(path)] = "__pypackages__" /\ path \in FsPyPackages
    THEN path \o <<"X.Y", "lib">>
    ELSE IF Parent(path) = path THEN NoDir
    ELSE determine_package_dir(Parent(path), tmp_venvs)

\* A plausible slip: one invalid path is enough to fail.
LocalPackageResolver_init_strict(pyenv_paths, description_template, tmp_venvs) ==
    LET found == {determine_package_dir(path, tmp_venvs) : path \in pyenv_paths}
    IN  IF NoDir \in found
        THEN Raise("ValueError")
        ELSE Ok([description_template |-> description_template,
                 package_dirs |-> found,
                 _packages |-> None])

\* LocalPackageResolver.__init__(pyenv_paths, description_template). The
\* instance gets the attributes description_template, package_dirs and
\* _packages, and no other.
LocalPackageResolver_init(pyenv_paths, description_template, tmp_venvs) ==
    LET package_dirs ==
            {determine_package_dir(path, tmp_venvs) : path \in pyenv_paths} \ {NoDir}
    IN  IF pyenv_paths # {} /\ package_dirs = {}
        THEN Raise("ValueError")
        ELSE Ok([description_template |-> description_template,
                 package_dirs |-> package_dirs,
                 _packages |-> None])

\* The distributions installed in the environment at proj/.venv.
VenvDists ==
    << [name |-> pd, imports |-> {pd}, parent_dir |-> "proj/.venv"] >>

\* The distributions installed in the environment at opt/venv2: the same
\* package, providing another import name.
Venv2Dists ==
    << [name |-> pd, imports |-> {old}, parent_dir |-> "opt/venv2"] >>

\* MetadataPathFinder().find_distributions() for the given search path;
\* tmp_dists are the distributions of the temporary venv, if there is one.
FindDistributions(paths, tmp_dists) ==
    CASE paths = "sys.path" -> SysPathDists
      [] paths = <<"tmp", "tmpdir", "lib", "pythonX.Y", "site-packages">> -> tmp_dists
      [] paths = <<"proj", ".venv", "lib", "pythonX.Y", "site-packages">> -> VenvDists
      [] paths = <<"opt", "venv2", "lib", "pythonX.Y", "site-packages">> -> Venv2Dists
      [] OTHER -> <<>>

\* description_template.format(path=parent_dir)
Format(description_template, parent_dir) ==
    IF description_template = DefaultTemplate
    THEN "Python env at " \o parent_dir
    ELSE description_template

\* The loop of LocalPackageResolver.packages over the distributions found:
\* a distribution whose normalized name is already in ret is skipped.
RECURSIVE LocalPackagesFrom(_, _, _)
LocalPackagesFrom(acc, dists, description_template) ==
    IF dists = <<>> THEN acc
    ELSE LET dist == Head(dists)
             normalized_name == normalize_name(dist.name)
             package == Package(dist.name,
                                Format(description_template, dist.parent_dir)
                                    :> dist.imports,
                                {})
         IN  IF normalized_name \in DOMAIN acc
             THEN LocalPackagesFrom(acc, Tail(dists), description_template)
             ELSE LocalPackagesFrom(
                      [k \in DOMAIN acc \cup {normalized_name} |->
                          IF k = normalized_name THEN package ELSE acc[k]],
                      Tail(dists), description_template)

\* LocalPackageResolver.packages (under calculated_once). The method reads
\* self.pyenv_path, an attribute __init__ never sets: the read raises
\* AttributeError and nothing is cached. Gives <<self afterwards, outcome>>.
LocalPackages(self, tmp_dists) ==
    IF self._packages # None THEN <<self, Ok(self._packages.some)>>
    ELSE IF "pyenv_path" \notin DOMAIN self
    THEN <<self, Raise("AttributeError")>>
    ELSE LET paths == IF self.pyenv_path = None
                      THEN "sys.path" ELSE self.pyenv_path
             computed == LocalPackagesFrom(<<>>, FindDistributions(paths, tmp_dists),
                                           self.description_template)
         IN  <<[self EXCEPT !._packages = Some(computed)], Ok(computed)>>

\* LocalPackageResolver.lookup_packages(package_names): as for
\* UserDefinedMapping, self.packages is read once per requested name.
LocalLookup(self, package_names, tmp_dists) ==
    IF package_names = {} THEN [self |-> self, out |-> Ok(<<>>)]
    ELSE LET got == LocalPackages(self, tmp_dists)
         IN  IF ~got[2].ok THEN [self |-> got[1], out |-> got[2]]
             ELSE [self |-> got[1],
                   out |-> Ok([name \in MatchedNames(package_names, got[2].value)
                                 |-> got[2].value[PackageKey(name)]])]

(***************************************************************************)
(* TemporaryPipInstallResolver and IdentityMapping                         *)
(***************************************************************************)
\* The requirements `pip install` can find in the package index, and the
\* distribution each one installs.
Installable == {pd, pip, PIP}
IndexDist(requirement) ==
    [name |-> normalize_name(requirement),
     imports |-> {normalize_name(requirement)},
     parent_dir |-> "tmpdir"]

\* tempfile.TemporaryDirectory() names a fresh directory.
TmpDir == <<"tmp", "tmpdir">>

\* What happens outside the program during a temporary install: whether
\* venv.create() succeeds and whether pip reaches the package index.
Externals == [venv_ok : BOOLEAN, index_ok : BOOLEAN]
\* For a lookup that does not install anything.
NoExternals == [venv_ok |-> TRUE, index_ok |-> TRUE]

\* TemporaryPipInstallResolver.lookup_packages(package_names): the venv is
\* created, the requirements are installed (check=True: a failing pip raises
\* CalledProcessError), and a LocalPackageResolver on the venv does the
\* lookup. The TemporaryDirectory context removes the venv on every path.
TemporaryLookup(package_names, ext) ==
    IF ~ext.venv_ok THEN Raise("CalledProcessError: venv")
    ELSE IF ~(ext.index_ok /\ package_names # {} /\ package_names \subseteq Installable)
    THEN Raise("CalledProcessError: pip install")
    ELSE LET made == LocalPackageResolver_init({TmpDir}, TempTemplate, {TmpDir})
             sorted == SetToSeq(package_names)
             tmp_dists == [i \in 1..Len(sorted) |-> IndexDist(sorted[i])]
         IN  IF ~made.ok THEN made
             ELSE LocalLookup(made.value, package_names, tmp_dists).out

\* A plausible slip: the directory is made with mkdtemp() and removed only
\* at the end of the happy path.
TemporaryEvents_leaky(package_names, ext) ==
    IF ~ext.venv_ok THEN <<"mkdtemp", "venv.create failed">>
    ELSE IF ~(ext.index_ok /\ package_names # {} /\ package_names \subseteq Installable)
    THEN <<"mkdtemp", "venv.create", "pip install failed">>
    ELSE <<"mkdtemp", "venv.create", "pip install", "touch .installed",
           "determine_package_dir">>

\* What TemporaryPipInstallResolver.lookup_packages does to the file system,
\* in order. tempfile.TemporaryDirectory() is the outermost context: its
\* exit removes the directory when venv.create() or pip raises, when the
\* body of the caller's with statement raises (the exception is thrown into
\* the generator at its yield), and when the body returns.
TemporaryEvents(package_names, ext) ==
    IF ~ext.venv_ok THEN <<"mkdtemp", "venv.create failed", "rmtree">>
    ELSE IF ~(ext.index_ok /\ package_names # {} /\ package_names \subseteq Installable)
    THEN <<"mkdtemp", "venv.create", "pip install failed", "rmtree">>
    ELSE LET made == LocalPackageResolver_init({TmpDir}, TempTemplate, {TmpDir})
             scanned == made.ok /\ "pyenv_path" \in DOMAIN made.value
         IN  <<"mkdtemp", "venv.create", "pip install", "touch .installed",
               "determine_package_dir">>
             \o (IF scanned THEN <<"find_distributions">> ELSE <<>>)
             \o <<"rmtree">>

\* IdentityMapping.lookup_packages(package_names)
IdentityLookup(package_names) ==
    Ok([name \in package_names |-> lookup_package(name)])

(***************************************************************************)
(* resolve_dependencies                                                    *)
(***************************************************************************)
NoResult == None
NoError == "<no error>"

UDM == "UserDefinedMapping"
LPR == "LocalPackageResolver"
TMP == "TemporaryPipInstallResolver"
IDM == "IdentityMapping"

\* The names a caller may declare, and the longest dep_names generated.
DepPool == {Foo_Bar, foo_bar, PIP, pip, pd}
MaxDeps == 2
DepNameSeqs == UNION {[1..k -> DepPool] : k \in 0..MaxDeps}

Range(seq) == {seq[i] : i \in DOMAIN seq}

\* A plausible slip: the resolvers in another order.
ResolverList_local_first(install_deps) ==
    <<LPR, UDM>> \o (IF install_deps THEN <<TMP>> ELSE <<>>) \o <<IDM>>

\* A plausible slip: the temporary installation is in the list regardless.
ResolverList_always_install(install_deps) == <<UDM, LPR, TMP, IDM>>

\* The list resolve_dependencies builds.
ResolverList(install_deps) ==
    <<UDM, LPR>> \o (IF install_deps THEN <<TMP>> ELSE <<>>) \o <<IDM>>

\* A plausible slip: every resolver is handed all the names.
Unresolved_all(all_deps, so_far) == all_deps

\* unresolved = deps - ret.keys()
Unresolved(all_deps, so_far) == all_deps \ DOMAIN so_far

\* A plausible slip: the loop is never left early.
NothingLeft_never(unresolved) == FALSE

\* if not unresolved: break
NothingLeft(unresolved) == unresolved = {}

\* A plausible slip: only the first requested name is kept.
DepSet_first(dep_names) == IF dep_names = <<>> THEN {} ELSE {dep_names[1]}

\* deps = set(dep_names)
DepSet(dep_names) == Range(dep_names)

\* dict.update
Update(d, e) ==
    [k \in DOMAIN d \cup DOMAIN e |-> IF k \in DOMAIN e THEN e[k] ELSE d[k]]

\* resolver.lookup_packages(unresolved) for the resolver of the given kind.
\* Gives [udm, lpr, out].
ResolverLookup(kind, u, l, package_names, ext) ==
    CASE kind = UDM ->
            LET r == UdmLookup(u, package_names)
            IN  [udm |-> r.self, lpr |-> l, out |-> r.out]
      [] kind = LPR ->
            LET r == LocalLookup(l, package_names, <<>>)
            IN  [udm |-> u, lpr |-> r.self, out |-> r.out]
      [] kind = TMP ->
            [udm |-> u, lpr |-> l, out |-> TemporaryLookup(package_names, ext)]
      [] kind = IDM ->
            [udm |-> u, lpr |-> l, out |-> IdentityLookup(package_names)]

\* What resolver.lookup_packages(package_names) does to the file system: the
\* mapping files are opened and the environment is scanned when the packages
\* property is computed, which is when a name is requested and nothing is
\* cached.
LookupEvents(kind, u, l, package_names, ext) ==
    CASE kind = UDM ->
            IF package_names # {} /\ u._packages = None
            THEN LET paths == SetToSeq(u.mapping_paths)
                 IN  [i \in 1..Len(paths) |-> "open " \o paths[i]]
            ELSE <<>>
      [] kind = LPR ->
            IF package_names # {} /\ l._packages = None
               /\ "pyenv_path" \in DOMAIN l
            THEN <<"find_distributions">>
            ELSE <<>>
      [] kind = TMP -> TemporaryEvents(package_names, ext)
      [] kind = IDM -> <<>>

(***************************************************************************)
(* Spec: one call of resolve_dependencies, or of one resolver's            *)
(* lookup_packages, from an idle program                                   *)
(***************************************************************************)
MainIdle ==
    /\ pc = "idle"
    /\ args = None
    /\ deps = {}
    /\ resolvers = <<>>
    /\ idx = 0
    /\ ret = <<>>
    /\ result = NoResult
    /\ error = NoError
    /\ udm = None
    /\ lpr = None
    /\ calls = <<>>

\* The custom_mapping_files a caller may pass.
MappingFileArgs == {None} \cup {Some(paths) : paths \in SUBSET MappingPaths}

\* resolve_dependencies(dep_names, custom_mapping_files, custom_mapping,
\* pyenv_paths, install_deps) up to its for loop: set(dep_names), the two
\* constructors that can raise, and the list of resolvers.
ResolveBegin ==
    /\ pc = "idle"
    /\ \E dep_names \in DepNameSeqs, files \in MappingFileArgs,
          custom_mapping \in CustomMappings, pyenv_paths \in SUBSET PyenvPaths,
          install_deps \in BOOLEAN :
         LET u == UserDefinedMapping_init(
                      IF files = None \/ files.some = {} THEN Some({}) ELSE files,
                      custom_mapping)
             l == LocalPackageResolver_init(pyenv_paths, DefaultTemplate, {})
         IN  /\ args' = [op |-> "resolve_dependencies", dep_names |-> dep_names,
                         custom_mapping_files |-> files,
                         custom_mapping |-> custom_mapping,
                         pyenv_paths |-> pyenv_paths,
                         install_deps |-> install_deps]
             /\ deps' = DepSet(dep_names)
             /\ IF ~u.ok
                THEN /\ pc' = "raised" /\ error' = u.exc
                     /\ UNCHANGED <<udm, lpr, resolvers, idx>>
                ELSE IF ~l.ok
                THEN /\ pc' = "raised" /\ error' = l.exc
                     /\ udm' = u.value /\ resolvers' = <<UDM>>
                     /\ UNCHANGED <<lpr, idx>>
                ELSE /\ pc' = "loop" /\ error' = NoError
                     /\ udm' = u.value /\ lpr' = l.value
                     /\ resolvers' = ResolverList(install_deps)
                     /\ idx' = 1
    /\ UNCHANGED <<ret, result, calls, normVars, pkgVars, cmpVars, dirVars, cliVars, travVars>>

\* One iteration of `for resolver in resolvers`: leave the loop when nothing
\* is unresolved, else look the unresolved names up and ret.update().
ChainStep ==
    /\ pc = "loop"
    /\ IF idx > Len(resolvers)
       THEN /\ pc' = "return"
            /\ UNCHANGED <<idx, ret, error, udm, lpr, calls>>
       ELSE LET unresolved == Unresolved(deps, ret)
            IN  IF NothingLeft(unresolved)
                THEN /\ pc' = "return"
                     /\ UNCHANGED <<idx, ret, error, udm, lpr, calls>>
                ELSE \E ext \in (IF resolvers[idx] = TMP THEN Externals
                                 ELSE {NoExternals}) :
                       LET r == ResolverLookup(resolvers[idx], udm, lpr,
                                               unresolved, ext)
                           fs == LookupEvents(resolvers[idx], udm, lpr,
                                              unresolved, ext)
                       IN  /\ calls' = Append(calls, [resolver |-> resolvers[idx],
                                                      names |-> unresolved,
                                                      out |-> r.out,
                                                      fs |-> fs])
                           /\ udm' = r.udm /\ lpr' = r.lpr
                           /\ IF r.out.ok
                              THEN /\ ret' = Update(ret, r.out.value)
                                   /\ idx' = idx + 1
                                   /\ pc' = "loop"
                                   /\ UNCHANGED error
                              ELSE /\ pc' = "raised"
                                   /\ error' = r.out.exc
                                   /\ UNCHANGED <<idx, ret>>
    /\ UNCHANGED <<args, deps, resolvers, result, normVars, pkgVars, cmpVars, dirVars, cliVars, travVars>>

\* return ret
ResolveReturn ==
    /\ pc = "return"
    /\ result' = Some(ret)
    /\ pc' = "done"
    /\ UNCHANGED <<args, deps, resolvers, idx, ret, error, udm, lpr, calls,
                   normVars, pkgVars, cmpVars, dirVars, cliVars, travVars>>

\* The end of a direct lookup_packages call on a fresh resolver.
LookedUp(kind, package_names, out, fs) ==
    /\ calls' = Append(calls, [resolver |-> kind, names |-> package_names,
                               out |-> out, fs |-> fs])
    /\ IF out.ok
       THEN pc' = "looked_up" /\ result' = Some(out.value) /\ error' = NoError
       ELSE pc' = "raised" /\ error' = out.exc /\ result' = NoResult

\* UserDefinedMapping(files, custom_mapping).lookup_packages(package_names)
LookupUserDefined ==
    /\ pc = "idle"
    /\ \E files \in MappingFileArgs, custom_mapping \in CustomMappings,
          package_names \in SUBSET DepPool :
         LET u == UserDefinedMapping_init(files, custom_mapping)
         IN  /\ args' = [op |-> "lookup_packages", kind |-> UDM,
                         package_names |-> package_names,
                         custom_mapping_files |-> files,
                         custom_mapping |-> custom_mapping]
             /\ IF ~u.ok
                THEN /\ pc' = "raised" /\ error' = u.exc
                     /\ UNCHANGED <<udm, calls, result>>
                ELSE LET r == UdmLookup(u.value, package_names)
                     IN  /\ udm' = r.self
                         /\ LookedUp(UDM, package_names, r.out,
                                     LookupEvents(UDM, u.value, None,
                                                  package_names, NoExternals))
    /\ UNCHANGED <<deps, resolvers, idx, ret, lpr, normVars, pkgVars, cmpVars, dirVars, cliVars, travVars>>

\* LocalPackageResolver(pyenv_paths).lookup_packages(package_names)
LookupLocal ==
    /\ pc = "idle"
    /\ \E pyenv_paths \in SUBSET PyenvPaths, package_names \in SUBSET DepPool :
         LET l == LocalPackageResolver_init(pyenv_paths, DefaultTemplate, {})
         IN  /\ args' = [op |-> "lookup_packages", kind |-> LPR,
                         package_names |-> package_names,
                         pyenv_paths |-> pyenv_paths]
             /\ IF ~l.ok
                THEN /\ pc' = "raised" /\ error' = l.exc
                     /\ UNCHANGED <<lpr, calls, result>>
                ELSE LET r == LocalLookup(l.value, package_names, <<>>)
                     IN  /\ lpr' = r.self
                         /\ LookedUp(LPR, package_names, r.out,
                                     LookupEvents(LPR, None, l.value,
                                                  package_names, NoExternals))
    /\ UNCHANGED <<deps, resolvers, idx, ret, udm, normVars, pkgVars, cmpVars, dirVars, cliVars, travVars>>

\* TemporaryPipInstallResolver().lookup_packages(package_names)
LookupTemporary ==
    /\ pc = "idle"
    /\ \E package_names \in SUBSET DepPool, ext \in Externals :
         /\ args' = [op |-> "lookup_packages", kind |-> TMP,
                     package_names |-> package_names, ext |-> ext]
         /\ LookedUp(TMP, package_names, TemporaryLookup(package_names, ext),
                     LookupEvents(TMP, None, None, package_names, ext))
    /\ UNCHANGED <<deps, resolvers, idx, ret, udm, lpr, normVars, pkgVars, cmpVars, dirVars, cliVars, travVars>>

\* IdentityMapping().lookup_packages(package_names)
LookupIdentity ==
    /\ pc = "idle"
    /\ \E package_names \in SUBSET DepPool :
         /\ args' = [op |-> "lookup_packages", kind |-> IDM,
                     package_names |-> package_names]
         /\ LookedUp(IDM, package_names, IdentityLookup(package_names), <<>>)
    /\ UNCHANGED <<deps, resolvers, idx, ret, udm, lpr, normVars, pkgVars, cmpVars, dirVars, cliVars, travVars>>

\* The most lookup_packages calls made on one instance, and the names the
\* calls after the first ask for.
MaxCalls == 3
AgainNames == {{}, {pip}, {Foo_Bar, pd}}

\* Another lookup_packages(package_names) call on the resolver instance of a
\* direct call, after that call returned or raised (the caller caught it).
LookupAgain ==
    /\ pc \in {"looked_up", "raised"}
    /\ args.op = "lookup_packages"
    /\ calls # <<>>
    /\ Len(calls) < MaxCalls
    /\ \E package_names \in AgainNames,
          ext \in (IF args.kind = TMP THEN Externals ELSE {NoExternals}) :
         LET r == ResolverLookup(args.kind, udm, lpr, package_names, ext)
             fs == LookupEvents(args.kind, udm, lpr, package_names, ext)
         IN  /\ args' = IF args.kind = TMP
                        THEN [args EXCEPT !.package_names = package_names,
                                          !.ext = ext]
                        ELSE [args EXCEPT !.package_names = package_names]
             /\ udm' = r.udm /\ lpr' = r.lpr
             /\ LookedUp(args.kind, package_names, r.out, fs)
    /\ UNCHANGED <<deps, resolvers, idx, ret, normVars, pkgVars, cmpVars, dirVars, cliVars, travVars>>

Init == MainIdle /\ NormIdle /\ PkgIdle /\ CmpIdle /\ DirIdle /\ CliIdle /\ TravIdle

Next ==
    \/ ResolveBegin
    \/ ChainStep
    \/ ResolveReturn
    \/ LookupUserDefined
    \/ LookupLocal
    \/ LookupTemporary
    \/ LookupIdentity
    \/ LookupAgain

Spec == Init /\ [][Next]_vars

(***************************************************************************)
(* SpecAlias: lookups on one UserDefinedMapping or LocalPackageResolver,   *)
(* with a caller that changes the Packages it was returned                 *)
(***************************************************************************)
CallerDescription == "added by the caller"

\* A plausible slip: lookup_packages hands out copies of the cached Packages.
Aliased_copy(self, key, package) == self

\* `name: self.packages[Package.normalize_name(name)]`: the Package returned
\* for a name is the object in the cache, so what the caller makes of it is
\* what the cache holds under its key.
Aliased(self, key, package) ==
    [self EXCEPT !._packages = Some([@.some EXCEPT ![key] = package])]

\* The caller calls add_import_names on a Package that an earlier lookup
\* returned.
MutateReturned ==
    /\ pc = "looked_up"
    /\ args.op = "lookup_packages"
    /\ args.kind = UDM
    /\ Len(calls) < MaxCalls
    /\ \E i \in 1..Len(calls) : \E n \in DOMAIN calls[i].out.value :
         LET key == PackageKey(n)
             package == add_import_names(udm._packages.some[key], {old},
                                         CallerDescription)
         IN  /\ udm' = Aliased(udm, key, package)
             /\ calls' = Append(calls, [resolver |-> "caller", names |-> {n},
                                        out |-> Ok(<<>>), fs |-> <<>>])
    /\ UNCHANGED <<pc, args, deps, resolvers, idx, ret, result, error, lpr,
                   normVars, pkgVars, cmpVars, dirVars, cliVars, travVars>>

NextAlias ==
    \/ LookupUserDefined
    \/ LookupLocal
    \/ LookupAgain
    \/ MutateReturned

SpecAlias == Init /\ [][NextAlias]_vars

(***************************************************************************)
(* SpecPkg: one Package driven through its constructor and methods         *)
(***************************************************************************)

\* The test suite's descriptions and a pool of import names and candidates.
PkgDescriptions == {IdentityDescription, "Python env at /some/path"}
ImportPool == {foo_bar, foo_hy_bar, FooBar, Foo_Bar}
PkgNames == {Foo_Bar, foobar}

\* The mappings argument of the constructor: any dict from descriptions to
\* sets of import names.
InitialMappings == UNION {[D -> SUBSET ImportPool] : D \in SUBSET PkgDescriptions}

\* The import_names argument of the constructor (the caller may pass any set).
InitialImportNames == {{}, {foobar}}


\* p = Package(name, mappings, import_names)
PkgConstruct ==
    /\ pkg = NoPkg
    /\ \E name \in PkgNames, m \in InitialMappings, inames \in InitialImportNames :
         /\ pkg' = Package(name, m, inames)
         /\ p_log' = [via |-> "constructor", arg |-> inames, added |-> FALSE]
    /\ UNCHANGED <<used, normVars, mainVars, cmpVars, dirVars, cliVars, travVars>>

\* p = IdentityMapping().lookup_package(name)
PkgIdentity ==
    /\ pkg = NoPkg
    /\ \E name \in PkgNames :
         /\ pkg' = lookup_package(name)
         /\ p_log' = [via |-> "identity", arg |-> {}, added |-> FALSE]
    /\ UNCHANGED <<used, normVars, mainVars, cmpVars, dirVars, cliVars, travVars>>

\* p.add_import_names(*names, description=description)
PkgAdd ==
    /\ pkg # NoPkg
    /\ \E names \in SUBSET ImportPool, description \in PkgDescriptions :
         pkg' = add_import_names(pkg, names, description)
    /\ p_log' = [p_log EXCEPT !.added = TRUE]
    /\ used' = NoCall
    /\ UNCHANGED <<normVars, mainVars, cmpVars, dirVars, cliVars, travVars>>

\* p.is_used(cands)
PkgIsUsed ==
    /\ pkg # NoPkg
    /\ \E cands \in SUBSET ImportPool :
         used' = [cands |-> cands, ret |-> is_used(pkg, cands)]
    /\ UNCHANGED <<pkg, p_log, normVars, mainVars, cmpVars, dirVars, cliVars, travVars>>

InitPkg == PkgIdle /\ NormIdle /\ MainIdle /\ CmpIdle /\ DirIdle /\ CliIdle /\ TravIdle

NextPkg == PkgConstruct \/ PkgIdentity \/ PkgAdd \/ PkgIsUsed

SpecPkg == InitPkg /\ [][NextPkg]_vars

(***************************************************************************)
(* SpecNorm: normalize_name as a pure function of bounded inputs           *)
(***************************************************************************)
NormInputs == Strs(MaxLen) \cup {Foo_Bar, foo_bar}

InitNorm ==
    /\ n_in \in NormInputs
    /\ n_var \in Variants(n_in)
    /\ n_out = [x |-> NoStr, v |-> NoStr, xx |-> NoStr]
    /\ n_pc = "init"
    /\ PkgIdle
    /\ MainIdle
    /\ CmpIdle
    /\ DirIdle /\ CliIdle /\ TravIdle

\* normalize_name(n_in) and normalize_name(n_var)
NormOnce ==
    /\ n_pc = "init"
    /\ n_out' = [n_out EXCEPT !.x = normalize_name(n_in),
                              !.v = normalize_name(n_var)]
    /\ n_pc' = "once"
    /\ UNCHANGED <<n_in, n_var, pkgVars, mainVars, cmpVars, dirVars, cliVars, travVars>>

\* normalize_name(normalize_name(n_in))
NormTwice ==
    /\ n_pc = "once"
    /\ n_out' = [n_out EXCEPT !.xx = normalize_name(n_out.x)]
    /\ n_pc' = "twice"
    /\ UNCHANGED <<n_in, n_var, pkgVars, mainVars, cmpVars, dirVars, cliVars, travVars>>

NextNorm == NormOnce \/ NormTwice

SpecNorm == InitNorm /\ [][NextNorm]_vars

(***************************************************************************)
(* SpecCmp: compare_imports_to_dependencies (src/fawltydeps/check.py)      *)
(***************************************************************************)
\* The module names isort places in the standard library, among the names
\* used here. "dataclasses" is also the name of a package on the index.
StdlibModules == {"os", "dataclasses"}
NamePool == {"os", "dataclasses", "requests", "flask", "django"}

\* isort.place_module(module)
place_module(module) ==
    IF module \in StdlibModules THEN "STDLIB" ELSE "THIRDPARTY"

\* The longest imports and dependencies generated. Both are iterables: a
\* name may occur twice.
MaxItems == 2
NameSeqs == UNION {[1..k -> NamePool] : k \in 0..MaxItems}

\* A plausible slip: the standard library is not filtered out.
compare_imports_to_dependencies_unfiltered(imports, dependencies) ==
    LET unique_dependencies == Range(dependencies)
    IN  <<Range(imports) \ unique_dependencies,
          unique_dependencies \ Range(imports)>>

\* A plausible slip: unused is taken against undeclared.
compare_imports_to_dependencies_slip(imports, dependencies) ==
    LET non_stdlib_imports ==
            {module \in Range(imports) : place_module(module) # "STDLIB"}
        unique_dependencies == Range(dependencies)
        undeclared == non_stdlib_imports \ unique_dependencies
    IN  <<undeclared, unique_dependencies \ undeclared>>

\* compare_imports_to_dependencies(imports, dependencies): the tuple
\* (undeclared, unused).
compare_imports_to_dependencies(imports, dependencies) ==
    LET non_stdlib_imports ==
            {module \in Range(imports) : place_module(module) # "STDLIB"}
        unique_dependencies == Range(dependencies)
        undeclared == non_stdlib_imports \ unique_dependencies
        unused == unique_dependencies \ non_stdlib_imports
    IN  <<undeclared, unused>>

\* undeclared, unused = compare_imports_to_dependencies(imports, dependencies)
Compare ==
    /\ cmp = NoCmp
    /\ \E imports \in NameSeqs, dependencies \in NameSeqs :
         cmp' = [imports |-> imports, dependencies |-> dependencies,
                 ret |-> compare_imports_to_dependencies(imports, dependencies)]
    /\ UNCHANGED <<normVars, pkgVars, mainVars, dirVars, cliVars, travVars>>

InitCmp == CmpIdle /\ NormIdle /\ PkgIdle /\ MainIdle /\ DirIdle /\ CliIdle /\ TravIdle

NextCmp == Compare

SpecCmp == InitCmp /\ [][NextCmp]_vars

(***************************************************************************)
(* SpecDir: LocalPackageResolver.determine_package_dir, call by call       *)
(***************************************************************************)
\* The directory names the generated paths are built from, and the longest
\* path generated.
DirNames == {"proj", ".venv", "bin", "opt", "venv2", "pep582", "__pypackages__"}
MaxDepth == 4
DirPaths == UNION {[1..k -> DirNames] : k \in 0..MaxDepth}

\* The body of determine_package_dir before its last line: the
\* site-packages directory of an environment at exactly this path (bin/python
\* and lib/python?.*/site-packages, or the __pypackages__ layout), or NoDir.
EnvAt(path) ==
    IF path \in FsBinPython /\ path \in FsSitePackages
    THEN path \o <<"lib", "pythonX.Y", "site-packages">>
    ELSE IF path # <<>> /\ path[Len(path)] = "__pypackages__" /\ path \in FsPyPackages
    THEN path \o <<"X.Y", "lib">>
    ELSE NoDir

\* A plausible slip: the search gives up above the parent directory.
GivesUp_after_one(path, depth) == Parent(path) = path \/ depth >= 1

\* A plausible slip: the search never gives up.
GivesUp_never(path, depth) == FALSE

\* The condition of the last line: path.parent == path. (depth, the number
\* of recursive calls so far, plays no part.)
GivesUp(path, depth) == Parent(path) = path

\* return site_packages
DirFound ==
    /\ d_pc = "search"
    /\ EnvAt(d_cur) # NoDir
    /\ d_ret' = EnvAt(d_cur)
    /\ d_pc' = "returned"
    /\ UNCHANGED <<d_in, d_cur, d_depth, normVars, pkgVars, mainVars, cmpVars,
                   cliVars, travVars>>

\* return None
DirGiveUp ==
    /\ d_pc = "search"
    /\ EnvAt(d_cur) = NoDir
    /\ GivesUp(d_cur, d_depth)
    /\ d_ret' = NoDir
    /\ d_pc' = "returned"
    /\ UNCHANGED <<d_in, d_cur, d_depth, normVars, pkgVars, mainVars, cmpVars,
                   cliVars, travVars>>

\* return cls.determine_package_dir(path.parent)
DirRecurse ==
    /\ d_pc = "search"
    /\ EnvAt(d_cur) = NoDir
    /\ ~GivesUp(d_cur, d_depth)
    /\ d_cur' = Parent(d_cur)
    /\ d_depth' = d_depth + 1
    /\ UNCHANGED <<d_in, d_ret, d_pc, normVars, pkgVars, mainVars, cmpVars,
                   cliVars, travVars>>

InitDir ==
    /\ d_in \in DirPaths
    /\ d_cur = d_in
    /\ d_depth = 0
    /\ d_ret = <<>>
    /\ d_pc = "search"
    /\ NormIdle /\ PkgIdle /\ MainIdle /\ CmpIdle /\ CliIdle /\ TravIdle

NextDir == DirFound \/ DirGiveUp \/ DirRecurse

SpecDir == InitDir /\ [][NextDir]_vars

\* Python runs the call to its end.
SpecDirFair == SpecDir /\ WF_vars(NextDir)

(***************************************************************************)
(* SpecCli: main() and Analysis.create                                     *)
(***************************************************************************)
\* class Action
LIST_IMPORTS == "LIST_IMPORTS"
LIST_DEPS == "LIST_DEPS"
REPORT_UNDECLARED == "REPORT_UNDECLARED"
REPORT_UNUSED == "REPORT_UNUSED"

\* args.actions: what one of the mutually exclusive options --check,
\* --check-undeclared, --check-unused, --list-imports, --list-deps stores,
\* or None without any of them.
ActionArgs ==
    {None, Some({REPORT_UNDECLARED, REPORT_UNUSED}), Some({REPORT_UNDECLARED}),
     Some({REPORT_UNUSED}), Some({LIST_IMPORTS}), Some({LIST_DEPS})}

\* actions = args.actions or {Action.REPORT_UNDECLARED, Action.REPORT_UNUSED}
ActionsOrDefault(actions) ==
    IF actions = None \/ actions.some = {}
    THEN {REPORT_UNDECLARED, REPORT_UNUSED}
    ELSE actions.some

\* The --code arguments: one that the import extractor can parse and one
\* that it rejects.
CodeArgs == {"src", "notes.txt"}

\* extract_imports.parse_any_arg(code): ArgParseError for an argument that
\* is neither a directory, a Python file, a notebook nor "-".
parse_any_arg(code, imports) ==
    IF code = "notes.txt" THEN Raise("ArgParseError") ELSE Ok(imports)

\* Analysis.is_enabled(*args)
is_enabled(request, actions) == request \cap actions # {}

\* A Python tuple, as compare_imports_to_dependencies returns one.
PyTuple(items) == [type |-> "tuple", items |-> items]

\* obj.name: a tuple has the attributes of the tuple type only.
GetAttr(obj, name) ==
    IF obj.type = "tuple"
    THEN Raise("AttributeError")
    ELSE Ok(obj.fields[name])

\* Analysis.create(request, code, deps), with the imports that the import
\* extractor finds under code and the names that the dependency extractor
\* finds under deps.
AnalysisCreate(request, code, imports, declared) ==
    LET any == {LIST_IMPORTS, LIST_DEPS, REPORT_UNDECLARED, REPORT_UNUSED}
        parsed == IF is_enabled(request, any \ {LIST_DEPS})
                  THEN LET found == parse_any_arg(code, imports)
                       IN  IF found.ok THEN Ok(Some(found.value)) ELSE found
                  ELSE Ok(None)
        new == [request         |-> request,
                imports         |-> IF parsed.ok THEN parsed.value ELSE None,
                declared_deps   |-> IF is_enabled(request, any \ {LIST_IMPORTS})
                                    THEN Some(declared) ELSE None,
                undeclared_deps |-> None,
                unused_deps     |-> None]
    IN  IF ~parsed.ok THEN parsed
        ELSE IF ~is_enabled(request, {REPORT_UNDECLARED, REPORT_UNUSED})
        THEN Ok(new)
        ELSE LET comparison ==
                     PyTuple(compare_imports_to_dependencies(
                                 new.imports.some, new.declared_deps.some))
                 undeclared == GetAttr(comparison, "undeclared")
                 unused == GetAttr(comparison, "unused")
             IN  IF ~undeclared.ok THEN undeclared
                 ELSE IF ~unused.ok THEN unused
                 ELSE Ok([new EXCEPT !.undeclared_deps = Some(undeclared.value),
                                     !.unused_deps = Some(unused.value)])

\* A value that is true in a Python condition: not None and not empty.
Truthy(opt) == opt # None /\ opt.some # {}

\* The return statements at the end of main().
ExitCode(analysis) ==
    IF is_enabled(analysis.request, {REPORT_UNDECLARED})
       /\ Truthy(analysis.undeclared_deps)
    THEN 3
    ELSE IF is_enabled(analysis.request, {REPORT_UNUSED})
            /\ Truthy(analysis.unused_deps)
    THEN 4
    ELSE 0

\* analysis = Analysis.create(actions, args.code, args.deps), returning.
CliCreate ==
    /\ m_pc = "create"
    /\ LET out == AnalysisCreate(ActionsOrDefault(m_args.actions), m_args.code,
                                 m_args.imports, m_args.deps)
       IN  /\ out.ok
           /\ m_analysis' = Some(out.value)
           /\ m_pc' = "created"
    /\ UNCHANGED <<m_args, m_exc, m_exit, normVars, pkgVars, mainVars, cmpVars,
                   dirVars, travVars>>

\* analysis = Analysis.create(actions, args.code, args.deps), raising.
CliCreateRaises ==
    /\ m_pc = "create"
    /\ LET out == AnalysisCreate(ActionsOrDefault(m_args.actions), m_args.code,
                                 m_args.imports, m_args.deps)
       IN  /\ ~out.ok
           /\ m_exc' = out.exc
           /\ m_pc' = "raised"
    /\ UNCHANGED <<m_args, m_analysis, m_exit, normVars, pkgVars, mainVars,
                   cmpVars, dirVars, travVars>>

\* except extract_imports.ArgParseError: return parser.error(exc.msg)
CliArgError ==
    /\ m_pc = "raised"
    /\ m_exc = "ArgParseError"
    /\ m_exit' = Some(2)
    /\ m_pc' = "exited"
    /\ UNCHANGED <<m_args, m_analysis, m_exc, normVars, pkgVars, mainVars,
                   cmpVars, dirVars, travVars>>

\* Any other exception leaves main(): the interpreter exits with code 1.
CliCrash ==
    /\ m_pc = "raised"
    /\ m_exc # "ArgParseError"
    /\ m_exit' = Some(1)
    /\ m_pc' = "exited"
    /\ UNCHANGED <<m_args, m_analysis, m_exc, normVars, pkgVars, mainVars,
                   cmpVars, dirVars, travVars>>

\* print_human_readable and the return statements.
CliExit ==
    /\ m_pc = "created"
    /\ m_exit' = Some(ExitCode(m_analysis.some))
    /\ m_pc' = "exited"
    /\ UNCHANGED <<m_args, m_analysis, m_exc, normVars, pkgVars, mainVars,
                   cmpVars, dirVars, travVars>>

InitCli ==
    /\ m_args \in [actions : ActionArgs, code : CodeArgs,
                   imports : NameSeqs, deps : NameSeqs]
    /\ m_analysis = None
    /\ m_exc = "<no error>"
    /\ m_exit = None
    /\ m_pc = "create"
    /\ NormIdle /\ PkgIdle /\ MainIdle /\ CmpIdle /\ DirIdle /\ TravIdle

NextCli == CliCreate \/ CliCreateRaises \/ CliArgError \/ CliCrash \/ CliExit

SpecCli == InitCli /\ [][NextCli]_vars

(***************************************************************************)
(* SpecTrav: traverse_project.find_sources                                 *)
(***************************************************************************)
\* The names that packages.py defines or imports at its top level.
PackagesModuleNames ==
    {"logging", "subprocess", "sys", "tempfile", "venv", "ABC",
     "abstractmethod", "contextmanager", "dataclass", "field", "Path",
     "AbstractSet", "Dict", "Iterable", "Iterator", "List", "Optional", "Set",
     "Tuple", "DistributionFinder", "MetadataPathFinder",
     "_top_level_declared", "_top_level_inferred", "CustomMapping",
     "UnparseablePathException", "calculated_once", "hide_dataclass_fields",
     "tomllib", "logger", "Package", "BasePackageResolver",
     "accumulate_mappings", "UserDefinedMapping", "LocalPackageResolver",
     "TemporaryPipInstallResolver", "IdentityMapping", "resolve_dependencies"}

\* from fawltydeps.packages import validate_pyenv_source
ImportedFromPackages == {"validate_pyenv_source"}

\* Importing traverse_project: its import of names from packages.py.
ImportTraverseProject ==
    IF ImportedFromPackages \subseteq PackagesModuleNames
    THEN Ok("traverse_project")
    ELSE Raise("ImportError")

CodeSource == "CodeSource"
DepsSource == "DepsSource"

\* The paths of the generated settings: a Python file, a requirements file,
\* a file that neither extractor can parse, and a directory.
TravFiles == {"a.py", "reqs.txt", "notes.md"}
TravDir == "proj"

\* The longest settings.code and settings.deps, and the most files in the
\* directory.
MaxPaths == 2
MaxFiles == 2
ExplicitPathSeqs == UNION {[1..k -> TravFiles \cup {TravDir}] : k \in 0..MaxPaths}
DirFileSeqs == UNION {[1..k -> TravFiles] : k \in 0..MaxFiles}

\* validate_code_source(path) and validate_deps_source(path, ...): the
\* Source for a file that the extractor can parse, None for a directory,
\* UnparseablePathException for anything else.
ValidateSource(type, path) ==
    IF path = TravDir THEN Ok(None)
    ELSE IF (type = CodeSource /\ path = "a.py")
            \/ (type = DepsSource /\ path = "reqs.txt")
    THEN Ok(Some([type |-> type, path |-> path]))
    ELSE Raise("UnparseablePathException")

\* The loops over settings.code and settings.deps: a validation error is
\* propagated, a file is yielded, a directory is added to the traversal.
\* st is [yielded, types, exc].
RECURSIVE ExplicitLoop(_, _, _, _)
ExplicitLoop(type, paths, i, st) ==
    IF st.exc # "<no error>" \/ i > Len(paths) THEN st
    ELSE LET validated == ValidateSource(type, paths[i])
         IN  IF ~validated.ok THEN [st EXCEPT !.exc = validated.exc]
             ELSE IF validated.value # None
             THEN ExplicitLoop(type, paths, i + 1,
                      [st EXCEPT !.yielded = Append(@, validated.value.some)])
             ELSE ExplicitLoop(type, paths, i + 1,
                      [st EXCEPT !.types = @ \cup {type}])

\* `for path in files: try: ... yield validated
\*  except UnparseablePathException: pass`
RECURSIVE WalkLoop(_, _, _, _)
WalkLoop(type, files, i, st) ==
    IF i > Len(files) THEN st
    ELSE LET validated == ValidateSource(type, files[i])
         IN  IF validated.ok
             THEN WalkLoop(type, files, i + 1,
                      [st EXCEPT !.yielded = Append(@, validated.value.some)])
             ELSE WalkLoop(type, files, i + 1, st)

\* find_sources(settings) consumed to its end, with settings.pyenvs empty:
\* the explicit paths of settings.code, then those of settings.deps, then
\* the traversal of the directory with the types it was added for.
find_sources(settings) ==
    LET st0 == [yielded |-> <<>>, types |-> {}, exc |-> "<no error>"]
        st1 == ExplicitLoop(CodeSource, settings.code, 1, st0)
        st2 == ExplicitLoop(DepsSource, settings.deps, 1, st1)
        st3 == IF CodeSource \in st2.types
               THEN WalkLoop(CodeSource, settings.files, 1, st2) ELSE st2
        st4 == IF DepsSource \in st3.types
               THEN WalkLoop(DepsSource, settings.files, 1, st3) ELSE st3
    IN  IF st2.exc # "<no error>" THEN st2 ELSE st4

\* from fawltydeps.traverse_project import find_sources;
\* list(find_sources(settings))
FindSources ==
    /\ t_pc = "start"
    /\ LET module == ImportTraverseProject
       IN  IF ~module.ok
           THEN /\ t_exc' = module.exc
                /\ UNCHANGED t_yielded
           ELSE LET st == find_sources(t_settings)
                IN  /\ t_yielded' = st.yielded
                    /\ t_exc' = st.exc
    /\ t_pc' = "ended"
    /\ UNCHANGED <<t_settings, normVars, pkgVars, mainVars, cmpVars, dirVars,
                   cliVars>>

InitTrav ==
    /\ t_settings \in [code : ExplicitPathSeqs, deps : ExplicitPathSeqs,
                       files : DirFileSeqs]
    /\ t_yielded = <<>>
    /\ t_exc = "<no error>"
    /\ t_pc = "start"
    /\ NormIdle /\ PkgIdle /\ MainIdle /\ CmpIdle /\ DirIdle /\ CliIdle

NextTrav == FindSources

SpecTrav == InitTrav /\ [][NextTrav]_vars

(***************************************************************************)
(* Claims about Package and normalize_name                                 *)
(***************************************************************************)
IsStr(s) == s \in Seq(AllChars)

\* C6: after construction (with any initial mappings and whatever
\* import_names argument) and after any sequence of add_import_names calls,
\* a Package's import_names is the union of all the sets in its mappings.
C6_ImportNamesIsUnion ==
    pkg # NoPkg =>
        pkg.import_names = UNION {pkg.mappings[d] : d \in DOMAIN pkg.mappings}

\* A Package constructed with a non-empty import_names argument that then had
\* names added, and holds two provenance entries.
C6_Witness ==
    /\ pkg # NoPkg
    /\ p_log.via = "constructor"
    /\ p_log.arg # {}
    /\ p_log.added
    /\ Cardinality(DOMAIN pkg.mappings) = 2
    /\ pkg.import_names # {}

\* C7: is_used(candidates) is true iff some candidate, in its exact spelling,
\* is one of the Package's import names: a Package without mappings is never
\* used, and the identity-mapped "Foo-Bar" is used by exactly the candidate
\* sets that hold "foo_bar".
C7_IsUsedIsIntersection ==
    (pkg # NoPkg /\ used # NoCall) =>
        /\ used.ret <=> (\E c \in used.cands :
                           \E d \in DOMAIN pkg.mappings : c \in pkg.mappings[d])
        /\ (DOMAIN pkg.mappings = {} => ~used.ret)
        /\ (p_log.via = "identity" /\ ~p_log.added /\ pkg.package_name = Foo_Bar)
              => (used.ret <=> foo_bar \in used.cands)

\* The identity-mapped "Foo-Bar" asked about "foo-bar", "FooBar" and
\* "Foo-Bar" together: not used.
C7_Witness ==
    /\ pkg # NoPkg
    /\ used # NoCall
    /\ p_log.via = "identity"
    /\ ~p_log.added
    /\ pkg.package_name = Foo_Bar
    /\ used.cands = {foo_hy_bar, FooBar, Foo_Bar}
    /\ ~used.ret

\* C8: normalize_name gives a string for every string, applying it twice
\* gives what applying it once gives, and two strings that differ only in
\* letter case or in hyphen versus underscore get the same result
\* ("Foo-Bar" and "foo_bar" both give "foo_bar").
C8_NormalizeIdempotent ==
    /\ n_pc \in {"once", "twice"} =>
          /\ IsStr(n_out.x)
          /\ Len(n_out.x) = Len(n_in)
          /\ n_out.x = n_out.v
          /\ (n_in \in {Foo_Bar, foo_bar} => n_out.x = foo_bar)
    /\ n_pc = "twice" => n_out.xx = n_out.x

\* "Foo-Bar" and its variant "foo_bar", normalized once and twice.
C8_Witness ==
    /\ n_pc = "twice"
    /\ n_in = Foo_Bar
    /\ n_var = foo_bar
    /\ n_out.xx = foo_bar

(***************************************************************************)
(* Claims about the resolvers and resolve_dependencies                     *)
(***************************************************************************)
Resolving == args # None /\ args.op = "resolve_dependencies"
Looking(kind) == args # None /\ args.op = "lookup_packages" /\ args.kind = kind

\* The resolver a provenance label comes from.
ResolverOf(description) ==
    IF description = SettingsDescription
       \/ description \in {FileDescription(path) : path \in MappingPaths}
    THEN UDM
    ELSE IF description = IdentityDescription THEN IDM
    ELSE IF description = TempTemplate THEN TMP
    ELSE LPR

\* The mapping sources a call was given: the settings and the files.
GivenSources(a) ==
    (IF a.custom_mapping = None THEN {} ELSE {a.custom_mapping.some})
    \cup (IF a.custom_mapping_files = None THEN {}
          ELSE {FileContent(path) : path \in a.custom_mapping_files.some})

\* Some given source declares a spelling of the name.
UserMapped(a, name) ==
    \E src \in GivenSources(a) : \E k \in DOMAIN src : k \in Variants(name)

\* A distribution of the current environment has a spelling of the name.
LocallyInstalled(name) ==
    \E i \in DOMAIN SysPathDists : SysPathDists[i].name \in Variants(name)

\* The earliest resolver of the chain that has the name.
EarliestAble(a, name) ==
    IF UserMapped(a, name) THEN UDM
    ELSE IF LocallyInstalled(name) THEN LPR
    ELSE IF a.install_deps /\ name \in Installable THEN TMP
    ELSE IDM

\* The order the resolvers are to be consulted in.
ChainOrder(a) ==
    IF a.install_deps THEN <<UDM, LPR, TMP, IDM>> ELSE <<UDM, LPR, IDM>>

\* A string without upper-case letters and hyphens.
IsNormalized(s) ==
    \A i \in 1..Len(s) : s[i] \notin {"-", "A", "B", "F", "I", "P"}

\* A resolver's constructor rejected the configuration.
ConstructionFailed == error \in {"UnparseablePathException", "ValueError"}

\* C1: in resolve_dependencies, a name that one lookup_packages call
\* resolved is in no later call's names, and the accumulated result keeps
\* the Package of that first call.
C1_FirstMatchWins ==
    Resolving =>
        \A i \in 1..Len(calls) :
            calls[i].out.ok =>
                \A n \in DOMAIN calls[i].out.value :
                    /\ \A j \in (i + 1)..Len(calls) : n \notin calls[j].names
                    /\ n \in DOMAIN ret
                    /\ ret[n] = calls[i].out.value[n]

\* The first resolver resolved a name and a second one was then called.
C1_Witness ==
    /\ Resolving
    /\ Len(calls) = 2
    /\ calls[1].out.ok
    /\ DOMAIN calls[1].out.value # {}

\* C2: the resolvers are consulted in the order User-Defined, Local
\* Environment, Temporary Installation (if enabled), Identity, and every
\* Package of the final result has the provenance of one resolver, the
\* earliest able to resolve its name.
C2_EarliestResolverOnly ==
    Resolving =>
        /\ pc \in {"loop", "return", "done"} => resolvers = ChainOrder(args)
        /\ \A i \in 1..Len(calls) : calls[i].resolver = ChainOrder(args)[i]
        /\ pc = "done" =>
              \A n \in DOMAIN result.some :
                  {ResolverOf(d) : d \in DOMAIN result.some[n].mappings}
                      = {EarliestAble(args, n)}

\* A final result with a name that the user-defined mapping and the local
\* environment both have.
C2_Witness ==
    /\ Resolving
    /\ pc = "done"
    /\ \E n \in DOMAIN result.some :
          /\ UserMapped(args, n)
          /\ LocallyInstalled(n)
          /\ \A d \in DOMAIN result.some[n].mappings : ResolverOf(d) = UDM

\* C3: with Identity Mapping last in the chain, a call whose resolvers were
\* constructed ends with a result whose keys are the distinct requested
\* names, and every name no earlier resolver matched is mapped to its
\* identity Package.
C3_IdentityTotal ==
    (Resolving /\ pc \in {"done", "raised"} /\ ~ConstructionFailed) =>
        /\ pc = "done"
        /\ DOMAIN result.some = Range(args.dep_names)
        /\ \A n \in DOMAIN result.some :
              EarliestAble(args, n) = IDM =>
                  /\ result.some[n].package_name = n
                  /\ \E v \in Variants(n) :
                        /\ IsNormalized(v)
                        /\ result.some[n].mappings = (IdentityDescription :> {v})

\* C4: the keys of the mapping a lookup returns are exactly the requested
\* names, in the requested spelling, that the resolver matched after
\* normalization.
C4_KeysAreMatchedNames ==
    /\ (Looking(UDM) /\ pc # "idle" /\ ~ConstructionFailed) =>
          /\ pc = "looked_up"
          /\ DOMAIN result.some =
                {n \in args.package_names : UserMapped(args, n)}
    /\ (Looking(LPR) /\ pc # "idle" /\ ~ConstructionFailed) =>
          /\ pc = "looked_up"
          /\ DOMAIN result.some =
                {n \in args.package_names : LocallyInstalled(n)}
    /\ (Looking(IDM) /\ pc # "idle") =>
          /\ pc = "looked_up"
          /\ DOMAIN result.some = args.package_names
    /\ (Resolving /\ pc \in {"done", "raised"} /\ ~ConstructionFailed) =>
          /\ pc = "done"
          /\ DOMAIN result.some = Range(args.dep_names)

\* C5 as stated: every Package of the result has the caller's spelling as
\* its package_name.
C5_PackageNameIsRequested ==
    (Resolving /\ pc = "done") =>
        \A n \in DOMAIN result.some : result.some[n].package_name = n

\* C5, amended: every Package of the result has a package_name that differs
\* from the requested name at most in letter case and hyphen/underscore; a
\* Package of the User-Defined Mapping has the normalized name, and a Package
\* of IdentityMapping.lookup_packages has the caller's spelling.
C5_PackageNameModuloNormalization ==
    /\ (Resolving /\ pc = "done") =>
          \A n \in DOMAIN result.some :
              /\ result.some[n].package_name \in Variants(n)
              /\ (\E d \in DOMAIN result.some[n].mappings : ResolverOf(d) = UDM)
                    => IsNormalized(result.some[n].package_name)
              /\ (\E d \in DOMAIN result.some[n].mappings : ResolverOf(d) = IDM)
                    => result.some[n].package_name = n
    /\ (Looking(IDM) /\ pc = "looked_up") =>
          \A n \in DOMAIN result.some : result.some[n].package_name = n

\* A final result whose Package for "Foo-Bar" is named "foo_bar".
C5_Witness ==
    /\ Resolving
    /\ pc = "done"
    /\ Foo_Bar \in DOMAIN result.some
    /\ result.some[Foo_Bar].package_name = foo_bar

\* C9: a lookup_packages call on a constructed resolver, with the venv
\* creation and the package index working, never raises: it returns a
\* mapping whose keys are among the requested names.
C9_LookupNeverRaises ==
    (/\ args # None
     /\ args.op = "lookup_packages"
     /\ calls # <<>>
     /\ args.kind = TMP => (args.ext.venv_ok /\ args.ext.index_ok)) =>
        /\ pc = "looked_up"
        /\ DOMAIN result.some \subseteq args.package_names

\* C10: when a supplied mapping file path is not a file, the call ends in
\* the path-validation error with no lookup made and nothing returned,
\* whatever names are requested; and that error only ever comes from the
\* constructor.
C10_PathErrorAtConstruction ==
    ((Resolving \/ Looking(UDM)) /\ pc # "idle") =>
        LET bad == /\ args.custom_mapping_files # None
                   /\ \E path \in args.custom_mapping_files.some :
                         path \notin {"m1.toml", "m2.toml"}
        IN  /\ bad => /\ pc = "raised"
                      /\ error = "UnparseablePathException"
                      /\ calls = <<>>
                      /\ result = NoResult
            /\ error = "UnparseablePathException" => bad
            /\ ConstructionFailed => (calls = <<>> /\ result = NoResult)

\* resolve_dependencies of no names at all, given a directory as a mapping
\* file: raised.
C10_Witness ==
    /\ Resolving
    /\ args.dep_names = <<>>
    /\ args.custom_mapping_files = Some({"m1.toml", "sample_projects"})
    /\ pc = "raised"
    /\ error = "UnparseablePathException"

(***************************************************************************)
(* Claims about the construction of LocalPackageResolver                   *)
(***************************************************************************)
\* The path, or a directory above it, holds a Python environment.
ValidRoot(path) ==
    \E k \in 0..Len(path) :
        LET q == SubSeq(path, 1, k)
        IN  \/ q \in FsBinPython \cap FsSitePackages
            \/ q # <<>> /\ q[Len(q)] = "__pypackages__" /\ q \in FsPyPackages

\* A LocalPackageResolver constructor was run in this call.
LocalConstructed ==
    /\ pc # "idle"
    /\ \/ Looking(LPR)
       \/ Resolving /\ error # "UnparseablePathException"

TmpCalls == {i \in 1..Len(calls) : calls[i].resolver = TMP}

\* The events that touch the temporary environment.
EnvEvents == {"venv.create", "venv.create failed", "pip install",
              "pip install failed", "touch .installed",
              "determine_package_dir", "find_distributions"}

InstallBatch(a) ==
    {n \in Range(a.dep_names) : ~UserMapped(a, n) /\ ~LocallyInstalled(n)}

\* The installation of a finished Temporary Installation lookup failed.
InstallFailed(call) ==
    \E k \in 1..Len(call.fs) :
        call.fs[k] \in {"venv.create failed", "pip install failed"}

C14_InstallFailureDefers ==
    /\ Looking(TMP) =>
          \A i \in TmpCalls :
              InstallFailed(calls[i]) =>
                  (calls[i].out.ok /\ calls[i].out.value = <<>>)
    /\ (/\ Resolving
        /\ args.install_deps
        /\ pc \in {"done", "raised"}
        /\ ~ConstructionFailed
        /\ InstallBatch(args) # {}) =>
          /\ pc = "done"
          /\ \A i \in TmpCalls :
                InstallFailed(calls[i]) =>
                    /\ calls[i].out.ok /\ calls[i].out.value = <<>>
                    /\ i < Len(calls)
                    /\ calls[i + 1].resolver = IDM
                    /\ calls[i + 1].names = calls[i].names
                    /\ calls[i].names \subseteq DOMAIN result.some

\* C15: in resolve_dependencies the Temporary Installation Resolver is among
\* the resolvers only with install_deps, it is only ever called with the
\* names that neither the user-defined mapping nor the local environment
\* has, and without install_deps no lookup makes a directory, creates an
\* environment or runs an install.
C15_InstallOnlyOnOptIn ==
    Resolving =>
        /\ (\E k \in 1..Len(resolvers) : resolvers[k] = TMP) => args.install_deps
        /\ \A i \in TmpCalls :
              /\ args.install_deps
              /\ calls[i].names = InstallBatch(args)
        /\ ~args.install_deps =>
              \A i \in 1..Len(calls) : \A k \in 1..Len(calls[i].fs) :
                  calls[i].fs[k] \notin EnvEvents \cup {"mkdtemp"}

\* A call without install_deps that has ended with a name neither mapped
\* nor installed: two lookups were made and neither was an installation.
C15_Witness ==
    /\ Resolving
    /\ ~args.install_deps
    /\ InstallBatch(args) # {}
    /\ pc \in {"done", "raised"}
    /\ Len(calls) = 2
    /\ TMP \notin Range(resolvers)

(***************************************************************************)
(* Claims about the merging and the caching of the resolvers               *)
(***************************************************************************)
\* The mapping sources a call was given, each with its provenance label.
LabelledSources(a) ==
    (IF a.custom_mapping = None THEN {}
     ELSE {<<SettingsDescription, a.custom_mapping.some>>})
    \cup (IF a.custom_mapping_files = None THEN {}
          ELSE {<<FileDescription(path), FileContent(path)>> :
                    path \in a.custom_mapping_files.some})

\* What one source says a package provides, under any spelling of its name.
DeclaredBy(src, name) ==
    UNION {src[2][k] : k \in {d \in DOMAIN src[2] : d \in Variants(name)}}

\* The sources that declare some spelling of the name.
Declaring(a, name) ==
    {src \in LabelledSources(a) : \E k \in DOMAIN src[2] : k \in Variants(name)}

LookingAny == args # None /\ args.op = "lookup_packages"

C18_FirstRootWins ==
    (/\ Looking(LPR)
     /\ pc # "idle"
     /\ {<<"proj", ".venv">>, <<"opt", "venv2">>} \subseteq args.pyenv_paths
     /\ pd \in args.package_names) =>
        /\ pc = "looked_up"
        /\ pd \in DOMAIN result.some
        /\ \E dists \in {VenvDists, Venv2Dists} :
              /\ result.some[pd].import_names = dists[1].imports
              /\ result.some[pd].mappings =
                    (Format(DefaultTemplate, dists[1].parent_dir)
                        :> dists[1].imports)

(***************************************************************************)
(* Claims about compare_imports_to_dependencies                            *)
(***************************************************************************)
\* C19: no standard-library name is undeclared; undeclared is the imports
\* outside the standard library that are no declared dependency, and unused
\* is the declared dependencies that are none of the imports outside the
\* standard library. Imports {os, requests} against dependencies {requests}
\* give two empty sets, {flask} against {django} give {flask} and {django}.
C19_UndeclaredAndUnused ==
    cmp # NoCmp =>
        LET imported == {cmp.imports[i] : i \in DOMAIN cmp.imports}
            declared == {cmp.dependencies[i] : i \in DOMAIN cmp.dependencies}
            undeclared == cmp.ret[1]
            unused == cmp.ret[2]
        IN  /\ undeclared \cap StdlibModules = {}
            /\ \A m \in NamePool :
                  m \in undeclared <=>
                      (m \in imported /\ m \notin StdlibModules /\ m \notin declared)
            /\ \A d \in NamePool :
                  d \in unused <=>
                      (d \in declared /\ ~(d \in imported /\ d \notin StdlibModules))
            /\ (imported = {"os", "requests"} /\ declared = {"requests"})
                  => (undeclared = {} /\ unused = {})
            /\ (imported = {"flask"} /\ declared = {"django"})
                  => (undeclared = {"flask"} /\ unused = {"django"})

\* The imports os and requests compared with the dependency requests.
C19_Witness ==
    /\ cmp # NoCmp
    /\ cmp.imports = <<"os", "requests">>
    /\ cmp.dependencies = <<"requests">>
    /\ cmp.ret = <<{}, {}>>

\* C20 as stated: a name that is a declared dependency and an import is
\* neither undeclared nor unused.
C20_DeclaredAndImported ==
    cmp # NoCmp =>
        \A name \in NamePool :
            (/\ \E i \in DOMAIN cmp.imports : cmp.imports[i] = name
             /\ \E i \in DOMAIN cmp.dependencies : cmp.dependencies[i] = name)
                => (name \notin cmp.ret[1] /\ name \notin cmp.ret[2])

\* C20, amended: a name outside the standard library that is a declared
\* dependency and an import is neither undeclared nor unused; a
\* standard-library name that is a declared dependency is unused, imported
\* or not, and never undeclared.
C20_DeclaredAndImportedNonStdlib ==
    cmp # NoCmp =>
        \A name \in NamePool :
            LET isImport == \E i \in DOMAIN cmp.imports : cmp.imports[i] = name
                isDep == \E i \in DOMAIN cmp.dependencies :
                             cmp.dependencies[i] = name
            IN  /\ (isImport /\ isDep /\ name \notin StdlibModules)
                      => (name \notin cmp.ret[1] /\ name \notin cmp.ret[2])
                /\ (isDep /\ name \in StdlibModules)
                      => (name \notin cmp.ret[1] /\ name \in cmp.ret[2])

\* requests and dataclasses both declared and imported: only dataclasses is
\* reported, as unused.
C20_Witness ==
    /\ cmp # NoCmp
    /\ cmp.imports = <<"requests", "dataclasses">>
    /\ cmp.dependencies = <<"dataclasses", "requests">>
    /\ cmp.ret = <<{}, {"dataclasses"}>>

(***************************************************************************)
(* Claims about the loop of resolve_dependencies                           *)
(***************************************************************************)
\* The lookup_packages calls of the given resolver that were asked for n.
CallsFor(kind, n) ==
    {i \in 1..Len(calls) : calls[i].resolver = kind /\ n \in calls[i].names}

\* C21: in a resolve_dependencies call that has ended, every resolver was
\* called at most once, no name was handed to one resolver twice however
\* often it occurs in dep_names, and every distinct name that no earlier
\* resolver has was handed to the Identity Mapping exactly once.
C21_OncePerSource ==
    (Resolving /\ pc \in {"done", "raised"} /\ ~ConstructionFailed) =>
        /\ \A i \in 1..Len(calls) : \A j \in 1..Len(calls) :
              calls[i].resolver = calls[j].resolver => i = j
        /\ \A n \in Range(args.dep_names) :
              \A kind \in {UDM, LPR, TMP, IDM} :
                  Cardinality(CallsFor(kind, n)) <= 1
        /\ ~args.install_deps =>
              \A n \in InstallBatch(args) : Cardinality(CallsFor(IDM, n)) = 1

(***************************************************************************)
(* Claims about determine_package_dir                                      *)
(***************************************************************************)
\* The lengths of the prefixes of the given path that hold an environment.
EnvPrefixes == {k \in 0..Len(d_in) : EnvAt(SubSeq(d_in, 1, k)) # NoDir}

\* C22 as stated: the search looks at the given directory and at its parent
\* and no further: when neither holds an environment, None is returned.
C22_OneMoreLevel ==
    d_pc = "returned" =>
        /\ d_depth <= 1
        /\ (EnvAt(d_in) = NoDir /\ EnvAt(Parent(d_in)) = NoDir) => d_ret = NoDir

\* C22, amended: the search looks at the given directory and then at every
\* directory above it, nearest first, up to the root: it returns the
\* environment of the nearest one that holds one, and None only when none
\* does.
C22_EveryAncestor ==
    d_pc = "returned" =>
        /\ d_ret = determine_package_dir(d_in, {})
        /\ IF EnvPrefixes = {}
           THEN d_ret = NoDir /\ d_depth = Len(d_in)
           ELSE LET k == CHOOSE m \in EnvPrefixes : \A q \in EnvPrefixes : q <= m
                IN  /\ d_ret = EnvAt(SubSeq(d_in, 1, k))
                    /\ d_depth = Len(d_in) - k

\* An environment found two directories above the given one.
C22_Witness ==
    /\ d_pc = "returned"
    /\ d_in = <<"proj", ".venv", "bin", "bin">>
    /\ d_depth = 2
    /\ d_ret = <<"proj", ".venv", "lib", "pythonX.Y", "site-packages">>

\* C30: every call of determine_package_dir returns; a recursive call is
\* made on the parent directory, which is a shorter path; and when no
\* directory up to the root holds an environment, the search has reached
\* the root and returned None.
C30_Terminates ==
    /\ [][(d_pc = "search" /\ d_pc' = "search")
            => (d_cur' = Parent(d_cur) /\ Len(d_cur') < Len(d_cur))]_vars
    /\ [](d_pc \in {"search", "returned"} => d_depth <= Len(d_in))
    /\ []((d_pc = "returned" /\ EnvPrefixes = {})
            => (d_ret = NoDir /\ d_cur = <<>>))
    /\ (d_pc = "search") ~> (d_pc = "returned")

\* The longest path without an environment above it: the root was reached
\* and None returned.
C30_Witness ==
    /\ d_pc = "returned"
    /\ Len(d_in) = MaxDepth
    /\ d_depth = MaxDepth
    /\ d_cur = <<>>
    /\ d_ret = NoDir

(***************************************************************************)
(* Claims about the end of the loop of resolve_dependencies                *)
(***************************************************************************)
\* The names that the calls before the i-th resolved.
ResolvedBefore(i) ==
    UNION {DOMAIN calls[j].out.value : j \in {k \in 1..(i - 1) : calls[k].out.ok}}

\* C23: in resolve_dependencies every lookup_packages call is given the
\* requested names that no earlier call resolved, and that set is never
\* empty; once no requested name is unresolved no further call is made; and
\* for an empty input no call is made at all and the result of the loop is
\* the empty mapping.
C23_StopsWhenNothingLeft ==
    /\ [](Resolving =>
            /\ \A i \in 1..Len(calls) :
                  /\ calls[i].names # {}
                  /\ calls[i].names = Range(args.dep_names) \ ResolvedBefore(i)
            /\ (pc \in {"return", "done"} /\ idx <= Len(resolvers))
                  => Range(args.dep_names) \subseteq DOMAIN ret
            /\ args.dep_names = <<>> =>
                  /\ calls = <<>>
                  /\ ConstructionFailed \/ pc \in {"loop", "return", "done"}
                  /\ pc = "done" => result = Some(<<>>))
    /\ [][(Resolving /\ Range(args.dep_names) \subseteq DOMAIN ret)
            => calls' = calls]_vars

\* The loop was left after its first resolver resolved every requested
\* name, with further resolvers in the list.
C23_Witness ==
    /\ Resolving
    /\ pc = "done"
    /\ args.dep_names # <<>>
    /\ Len(calls) = 1
    /\ Len(resolvers) >= 3
    /\ idx = 2

(***************************************************************************)
(* Claims about Package.add_import_names                                   *)
(***************************************************************************)
\* C24: p.add_import_names(*names, description=d) on any Package p leaves
\* package_name and the names under every other description unchanged,
\* makes mappings[d] the union of its old names (none if d is new) with
\* names, makes import_names the union of its old value with names, and a
\* second call with the same arguments changes nothing.
C24_AddOnlyUnions ==
    pkg # NoPkg =>
        \A names \in SUBSET ImportPool, d \in PkgDescriptions :
            LET q == add_import_names(pkg, names, d)
                before == IF d \in DOMAIN pkg.mappings THEN pkg.mappings[d] ELSE {}
            IN  /\ q.package_name = pkg.package_name
                /\ DOMAIN q.mappings = DOMAIN pkg.mappings \cup {d}
                /\ \A e \in DOMAIN pkg.mappings \ {d} :
                      q.mappings[e] = pkg.mappings[e]
                /\ q.mappings[d] = before \cup names
                /\ q.import_names = pkg.import_names \cup names
                /\ add_import_names(q, names, d) = q

\* An identity-mapped Package that was then given names under the
\* description of a local environment, and has both entries.
C24_Witness ==
    /\ pkg # NoPkg
    /\ p_log.via = "identity"
    /\ p_log.added
    /\ DOMAIN pkg.mappings = PkgDescriptions
    /\ pkg.mappings[IdentityDescription] = {normalize_name(pkg.package_name)}
    /\ pkg.mappings["Python env at /some/path"] = {foo_hy_bar, FooBar}
    /\ pkg.import_names =
          {normalize_name(pkg.package_name), foo_hy_bar, FooBar}

(***************************************************************************)
(* Claims about the exit code of main()                                    *)
(***************************************************************************)
\* What compare_imports_to_dependencies finds for the run's inputs.
FoundUndeclared ==
    compare_imports_to_dependencies(m_args.imports, m_args.deps)[1] # {}
FoundUnused ==
    compare_imports_to_dependencies(m_args.imports, m_args.deps)[2] # {}

\* C25: a run of main() whose --code argument was accepted exits with 3 if
\* undeclared reporting is requested and undeclared dependencies were
\* found, else with 4 if unused reporting is requested and unused
\* dependencies were found, else with 0.
C25_ExitCodes ==
    (m_pc = "exited" /\ m_exc # "ArgParseError") =>
        LET request == ActionsOrDefault(m_args.actions)
        IN  m_exit = Some(IF REPORT_UNDECLARED \in request /\ FoundUndeclared
                          THEN 3
                          ELSE IF REPORT_UNUSED \in request /\ FoundUnused
                          THEN 4
                          ELSE 0)

(***************************************************************************)
(* Claims about find_sources                                               *)
(***************************************************************************)
\* The explicit paths that validation rejects, for each setting.
RejectedExplicit ==
    {i \in DOMAIN t_settings.code :
        ~ValidateSource(CodeSource, t_settings.code[i]).ok}
    \cup {i \in DOMAIN t_settings.deps :
        ~ValidateSource(DepsSource, t_settings.deps[i]).ok}

RECURSIVE LoopFrom(_, _, _, _, _, _, _)
LoopFrom(i, rs, names, so_far, u, l, ext) ==
    IF i > Len(rs) \/ NothingLeft(Unresolved(names, so_far))
    THEN Ok(so_far)
    ELSE LET r == ResolverLookup(rs[i], u, l, Unresolved(names, so_far), ext)
         IN  IF ~r.out.ok THEN r.out
             ELSE LoopFrom(i + 1, rs, names, Update(so_far, r.out.value),
                           r.udm, r.lpr, ext)

\* What a call of resolve_dependencies with the configuration a ends with,
\* as a function of the set of names.
Outcome(names, a, ext) ==
    LET u == UserDefinedMapping_init(
                 IF a.custom_mapping_files = None
                    \/ a.custom_mapping_files.some = {}
                 THEN Some({}) ELSE a.custom_mapping_files,
                 a.custom_mapping)
        l == LocalPackageResolver_init(a.pyenv_paths, DefaultTemplate, {})
    IN  IF ~u.ok THEN u
        ELSE IF ~l.ok THEN l
        ELSE LoopFrom(1, ResolverList(a.install_deps), names, <<>>,
                      u.value, l.value, ext)

SameNormalized(a, b) == a # b /\ normalize_name(a) = normalize_name(b)

\* The resolvers that the descriptions of a Package belong to.
Stages(package) == {ResolverOf(d) : d \in DOMAIN package.mappings}

\* C28: when two requested spellings have the same normalized form, a
\* returned result of resolve_dependencies has both as keys, with Packages
\* from the same resolver and with equal import_names; and a single
\* lookup_packages call resolves both or neither, with equal import_names.
C28_SpellingsResolveAlike ==
    /\ (Resolving /\ pc = "done") =>
          \A a, b \in Range(args.dep_names) :
              SameNormalized(a, b) =>
                  /\ {a, b} \subseteq DOMAIN result.some
                  /\ Stages(result.some[a]) = Stages(result.some[b])
                  /\ result.some[a].import_names = result.some[b].import_names
    /\ \A i \in 1..Len(calls) :
          calls[i].out.ok =>
              \A a, b \in calls[i].names :
                  SameNormalized(a, b) =>
                      /\ a \in DOMAIN calls[i].out.value
                            <=> b \in DOMAIN calls[i].out.value
                      /\ a \in DOMAIN calls[i].out.value =>
                            calls[i].out.value[a].import_names
                                = calls[i].out.value[b].import_names

\* A returned result for "Foo-Bar" and "foo_bar".
C28_Witness ==
    /\ Resolving
    /\ pc = "done"
    /\ Range(args.dep_names) = {Foo_Bar, foo_bar}
    /\ DOMAIN result.some = {Foo_Bar, foo_bar}
    /\ result.some[Foo_Bar].import_names # {}

(***************************************************************************)
(* Claims about the cache and the Packages returned from it                *)
(***************************************************************************)
\* The package map that the instance computes from its mapping sources.
ComputedMap == accumulate_mappings(UdmCustomMappings(udm))

\* The cache keys of the Packages that the caller changed before the i-th
\* call.
MutatedBefore(i) ==
    {PackageKey(n) :
        n \in UNION {calls[j].names :
                        j \in {k \in 1..(i - 1) : calls[k].resolver = "caller"}}}

\* The computed map with the caller's changes before the i-th call.
CacheAt(i) ==
    [key \in DOMAIN ComputedMap |->
        IF key \in MutatedBefore(i)
        THEN add_import_names(ComputedMap[key], {old}, CallerDescription)
        ELSE ComputedMap[key]]

====
